---- MODULE Spec2Model ----
(***************************************************************************)
(* Portfolio version-control subsystem of DevHeat.                         *)
(*                                                                         *)
(* The persistent store is the two tables of app/models/database.py        *)
(* (portfolios, portfolio_versions) behind the SQLite engine configured in *)
(* app/database.py.  Every HTTP handler runs in its own AsyncSession       *)
(* (get_db); the code between two awaits of a handler is one atomic step,  *)
(* and handlers of different requests interleave at their awaits.          *)
(*                                                                         *)
(* SQLite semantics of the default build: a SELECT outside a transaction   *)
(* reads the last committed state; the first INSERT/UPDATE/DELETE of a     *)
(* session opens a transaction and takes the database write lock, which is *)
(* held until COMMIT or ROLLBACK; foreign keys are not enforced.           *)
(***************************************************************************)
EXTENDS Integers, FiniteSets, Sequences, TLC

\* ---------------------------------------------------------------- bounds
MaxPortfolios == 2
MaxVersionIds == 3
\* version rows the snapshots of the editing router may add to that
MaxSnapshotIds == 4
NumRequests == 2
\* portfolios the interleaved specification works on
MaxConcurrentPortfolios == 1

Pids == 1..MaxPortfolios
VersionIds == 1..MaxVersionIds
Reqs == 1..NumRequests
ConcurrentPids == 1..MaxConcurrentPortfolios
\* a single request slot: handlers run one at a time
SeqReqs == {1}

\* ------------------------------------------------------------ enumerations
DRAFT == "draft"
COMMITTED == "committed"
AI == "ai"
USER_MANUAL == "user_manual"
AI_REFINEMENT == "ai_refinement"

\* ---------------------------------------------------------------- documents
\* ai_generated_content values: what the template fallback, the content
\* generator and the refiner put into the document
TemplateContent == 0
GeneratedContent == 1
RefinedContent == 2
\* ai_generated_content after a manual edit has set one of its fields
EditedContent == 3
\* the coaching document of a generation.  No handler inspects it: it is
\* copied from version to version, so the generated insights and their
\* template fallback are one value, distinct from the absent document 0
CoachingContent == 1

\* A JSON value held in a public_portfolio_json column or returned by the
\* refiner.  json says what the value is: null (None in Python), an object
\* (a dictionary) or an array (a list of numbers).  sections are the
\* top-level keys of an object; personal_info and ai_generated_content are
\* the values under the keys that are present, last_edited says whether
\* metadata has the key last_edited.
JsonValue(json, sections, personal_info, ai_generated_content, last_edited) ==
    [json |-> json, sections |-> sections, personal_info |-> personal_info,
     ai_generated_content |-> ai_generated_content, last_edited |-> last_edited]

\* null: a column that was never set, or the refiner's answer "null"
NullDoc == JsonValue("null", {}, 0, 0, FALSE)

\* the empty dictionary {}
EmptyDoc == JsonValue("object", {}, 0, 0, FALSE)

\* the list [1]: a truthy value that is not a dictionary
ArrayDoc == JsonValue("array", {}, 0, 0, FALSE)

\* a dictionary without any of the portfolio's sections, such as {"note": "x"}
NoteDoc == JsonValue("object", {"note"}, 0, 0, FALSE)

\* the keys build_public_portfolio_json gives a document
BuiltSections == {"personal_info", "data_sources", "ai_generated_content", "metadata"}

build_public_portfolio_json(personal_info, ai_generated_content) ==
    JsonValue("object", BuiltSections, personal_info, ai_generated_content, FALSE)

\* Python truthiness of a JSON value
Truthy(doc) ==
    \/ doc.json = "array"
    \/ doc.json = "object" /\ doc.sections # {}

\* the value validates as Dict[str, Any] in a response model
IsDict(doc) == doc.json = "object"

\* a personal_info section that is not the one of any portfolio
OtherPersonalInfo == 0

\* what json.loads of the refiner's answer can be, given the document sent;
\* the handler stores it as is.  The answer is any JSON value: the document
\* with refined content, the document unchanged, the empty dictionary, null,
\* a value that is not a dictionary, a dictionary without the sections
RefinerOutputs(current) ==
    {build_public_portfolio_json(current.personal_info, RefinedContent),
     current, EmptyDoc, NullDoc, ArrayDoc, NoteDoc}

\* an answer that json.loads accepts as well: the document with refined
\* content and a rewritten personal_info section.  No handler reads the
\* personal_info section, so this answer is kept to SpecRewrite.
RewrittenOutputs(current) ==
    {build_public_portfolio_json(OtherPersonalInfo, RefinedContent)}

AllowedFields ==
    {"professional_summary", "key_strengths", "project_highlights",
     "skills_summary"}

\* ------------------------------------------------- merge_portfolio_updates
\* The JSON values merge_portfolio_updates is called with.  A value has a
\* type t: dict, list, str, number (a number or a boolean) or null; a text
\* s if it is a string; and v, the keys Python's "in" finds in it: the keys
\* of a dict with their values, the section names that are elements of a
\* list, the section names that are substrings of a str.  Python objects
\* are held in a heap so that a copy and an alias are different things.
Json(t, s, v) == [t |-> t, s |-> s, v |-> v]

NoKeys == [k \in {} |-> Json("null", "", <<>>)]

JsonNull == Json("null", "", NoKeys)

JsonNumber == Json("number", "", NoKeys)

JsonStr(s) == Json("str", s, NoKeys)

JsonDict(v) == Json("dict", "", v)

SectionNames == {"ai_generated_content", "metadata"}

\* a list with the given section names among its elements, a string with
\* them among its substrings
JsonContaining(t, names) == Json(t, "", [k \in names |-> JsonStr("")])

\* the ai_generated_content sections merge is called with: dictionaries of
\* fields, and a value that is no dictionary
MergeContents ==
    {JsonDict([k \in S |-> JsonStr("old")]) :
        S \in SUBSET {"professional_summary", "achievements"}}
    \cup {JsonStr("text")}

MergeMetadata ==
    {JsonDict([k \in {"generated_at"} |-> JsonStr("earlier")]),
     JsonDict([k \in {"generated_at", "last_edited"} |-> JsonStr("earlier")]),
     JsonStr("text")}

\* the values merge is called with: dictionaries with personal_info and
\* data_sources, and optionally ai_generated_content and metadata; and the
\* values that are no dictionary: None, a number, lists and strings with
\* and without the section names in them
MergeDocs ==
    LET base == [k \in {"personal_info", "data_sources"} |-> JsonStr("kept")] IN
    {JsonDict(base)}
    \cup {JsonDict([k \in DOMAIN base \cup {"ai_generated_content"} |->
              IF k = "ai_generated_content" THEN c ELSE base[k]]) :
            c \in MergeContents}
    \cup {JsonDict([k \in DOMAIN base \cup {"metadata"} |->
              IF k = "metadata" THEN m ELSE base[k]]) : m \in MergeMetadata}
    \cup {JsonDict([k \in DOMAIN base \cup {"ai_generated_content", "metadata"} |->
              IF k = "ai_generated_content" THEN c
              ELSE IF k = "metadata" THEN m ELSE base[k]]) :
            c \in MergeContents, m \in MergeMetadata}
    \cup {JsonNull, JsonNumber}
    \cup {JsonContaining(t, names) :
            t \in {"list", "str"}, names \in SUBSET SectionNames}

\* the updates: any dictionary
MergeUpdates ==
    {[k \in S |-> JsonStr("new")] :
        S \in SUBSET {"professional_summary", "skills_summary",
                      "achievements", "data_sources", "personal_info"}}

\* json.loads(json.dumps(d)): the value is written out and read back, every
\* dictionary in it into a new dictionary
JsonRoundTrip(d) ==
    Json(d.t, d.s,
         [k \in DOMAIN d.v |->
            Json(d.v[k].t, d.v[k].s, [j \in DOMAIN d.v[k].v |-> d.v[k].v[j]])])

\* _deep_copy_dict: a new object holding the round trip of the given one
deep_copy_dict(heap, ref) ==
    [heap |-> [i \in DOMAIN heap \cup {2} |->
                 IF i = 2 THEN JsonRoundTrip(heap[ref]) ELSE heap[i]],
     ref |-> 2]

\* variant: every key of the updates is written, allow-listed or not
PatchedKeysUnfiltered(updates) == DOMAIN updates

\* the keys of the updates that the loop writes: those on the allow-list
PatchedKeys(updates) == DOMAIN updates \cap AllowedFields

\* key in x: a TypeError for a value that is no container
CanContain(x) == x.t \in {"dict", "list", "str"}

\* x[section][key] = value: x has to be a dict and x[section] a dict
CanAssignIn(x, section) == x.t = "dict" /\ x.v[section].t = "dict"

\* merge_portfolio_updates: copy; write the allow-listed updates into the
\* copy's ai_generated_content if the copy has one; stamp the copy's
\* metadata if it has one; return the copy.  The tests of lines 214 and 220
\* and the assignments of lines 217 and 221 raise TypeError on values they
\* do not apply to; then nothing is returned
merge_portfolio_updates(heap, current_portfolio, updates) ==
    LET copy == deep_copy_dict(heap, current_portfolio)
        updated == copy.ref
        d0 == copy.heap[updated]
        has_content == "ai_generated_content" \in DOMAIN d0.v
        has_metadata == "metadata" \in DOMAIN d0.v
        raise214 == ~CanContain(d0)
        raise217 == /\ has_content
                    /\ PatchedKeys(updates) # {}
                    /\ ~CanAssignIn(d0, "ai_generated_content")
        raise221 == has_metadata /\ ~CanAssignIn(d0, "metadata")
        d1 == IF has_content /\ PatchedKeys(updates) # {}
              THEN [d0 EXCEPT !.v["ai_generated_content"].v =
                      [k \in DOMAIN d0.v["ai_generated_content"].v
                               \cup PatchedKeys(updates) |->
                          IF k \in PatchedKeys(updates)
                          THEN updates[k]
                          ELSE d0.v["ai_generated_content"].v[k]]]
              ELSE d0
        d2 == IF has_metadata
              THEN [d1 EXCEPT !.v["metadata"].v =
                      [k \in DOMAIN d1.v["metadata"].v \cup {"last_edited"} |->
                          IF k = "last_edited" THEN JsonStr("now")
                          ELSE d1.v["metadata"].v[k]]]
              ELSE d1
    IN IF raise214 \/ raise217
       THEN [heap |-> copy.heap, updated |-> 0, raised |-> "TypeError"]
       ELSE IF raise221
       THEN [heap |-> [copy.heap EXCEPT ![updated] = d1], updated |-> 0,
             raised |-> "TypeError"]
       ELSE [heap |-> [copy.heap EXCEPT ![updated] = d2], updated |-> updated,
             raised |-> "none"]

NoMerge ==
    [pc |-> "idle", heap |-> [i \in {1} |-> JsonNull],
     input |-> JsonNull, updates |-> [k \in {} |-> JsonStr("new")],
     updated |-> 0, raised |-> "none"]

\* ------------------------------------------- documents as Python values
\* the updates of an edit request: a dictionary naming a field of the
\* allow-list, or naming only another key
EditUpdates ==
    {[k \in {field} |-> JsonStr("X")] :
        field \in {"professional_summary", "personal_info"}}

\* no updates: the empty dictionary
NoUpdates == [k \in {} |-> JsonStr("X")]

\* the professional_summary of a document with the given content
SummaryText(ai_generated_content) ==
    CASE ai_generated_content = TemplateContent -> "template"
      [] ai_generated_content = GeneratedContent -> "generated"
      [] ai_generated_content = RefinedContent -> "refined"
      [] OTHER -> "X"

\* the Python value a JSON column attribute holds for a document: None, the
\* list, or the dictionary of the document's sections
PythonValue(doc) ==
    IF doc.json = "null" THEN JsonNull
    ELSE IF doc.json = "array" THEN JsonContaining("list", {})
    ELSE JsonDict(
        [k \in doc.sections |->
            IF k = "ai_generated_content"
            THEN JsonDict([f \in {"professional_summary"} |->
                             JsonStr(SummaryText(doc.ai_generated_content))])
            ELSE IF k = "metadata"
            THEN JsonDict([f \in IF doc.last_edited
                                 THEN {"generated_at", "last_edited"}
                                 ELSE {"generated_at"} |-> JsonStr("earlier")])
            ELSE JsonStr("kept")])

\* the document a Python value is when written to a JSON column, for a
\* value made from the given document: its sections, the content its
\* professional_summary stands for, the last_edited key of its metadata
DocumentOf(doc, x) ==
    IF x.t # "dict" THEN doc
    ELSE JsonValue("object", DOMAIN x.v, doc.personal_info,
            IF /\ "ai_generated_content" \in DOMAIN x.v
               /\ x.v["ai_generated_content"].v["professional_summary"].s = "X"
            THEN EditedContent ELSE doc.ai_generated_content,
            /\ "metadata" \in DOMAIN x.v
            /\ "last_edited" \in DOMAIN x.v["metadata"].v)

\* edit_portfolio, lines 72-75: merge_portfolio_updates is called with the
\* value of the portfolio's column and the updates of the request; it
\* returns the updated document or raises
updated_portfolio(current_portfolio, updates) ==
    LET out == merge_portfolio_updates(
                   [i \in {1} |-> PythonValue(current_portfolio)], 1, updates) IN
    [raised |-> out.raised,
     document |-> IF out.raised = "none"
                  THEN DocumentOf(current_portfolio, out.heap[out.updated])
                  ELSE current_portfolio]

\* ------------------------------------------------------------------- rows
\* changes_summary of a version: a text and the version number it names, 0
\* if it names none
NoVersion ==
    [id |-> 0, portfolio_id |-> 0, version_number |-> 0, version_state |-> DRAFT,
     public_portfolio_json |-> NullDoc, private_coaching_json |-> 0,
     changes_summary |-> <<"", 0>>, created_by |-> AI]

PortfolioVersion(id, pid, num, state, pub, coach, summary, by) ==
    [id |-> id, portfolio_id |-> pid, version_number |-> num, version_state |-> state,
     public_portfolio_json |-> pub, private_coaching_json |-> coach,
     changes_summary |-> summary, created_by |-> by]

NoPortfolio ==
    [exists |-> FALSE, status |-> "draft", current_version_id |-> 0,
     error_message |-> FALSE,
     public_portfolio_json |-> NullDoc, private_coaching_json |-> 0]

\* a new row: the JSON columns of the portfolio itself are left NULL
Portfolio(status) ==
    [exists |-> TRUE, status |-> status, current_version_id |-> 0,
     error_message |-> FALSE,
     public_portfolio_json |-> NullDoc, private_coaching_json |-> 0]

\* a request slot with no handler running
IdleReq ==
    [op |-> "idle", pc |-> "idle", pid |-> 0, version_id |-> 0,
     loaded |-> NoPortfolio, portfolio |-> NoPortfolio,
     latest_version |-> NoVersion, selected_version |-> NoVersion,
     max_version_number |-> 0, refined_json |-> NullDoc,
     content_failed |-> FALSE,
     public_portfolio_json |-> NullDoc, private_coaching_json |-> 0,
     new_version |-> NoVersion, flushed |-> FALSE, deleted |-> {},
     updates |-> NoUpdates, next_version_number |-> 0, version |-> NoVersion,
     result |-> "none"]

VARIABLES
    portfolios,   \* committed portfolios table: Pids -> row
    versions,     \* committed portfolio_versions table: set of rows
    lock,         \* request holding the SQLite write lock, 0 if none
    nextId,       \* next fresh primary key (uuid4) for a version row
    issued,       \* history: highest version_number ever committed per portfolio
    req,          \* per request slot: the handler's position, locals and session
    merge         \* a call of merge_portfolio_updates: its objects and position

vars == <<portfolios, versions, lock, nextId, issued, req, merge>>

\* ------------------------------------------------------------------ queries
VersionsOf(p) == {v \in versions : v.portfolio_id = p}

Max(S) == IF S = {} THEN 0 ELSE CHOOSE n \in S : \A m \in S : m <= n

MaxNumber(S) == Max({v.version_number : v \in S})

\* variant: the statement without its where(portfolio_id == p) clause
LatestRowsOfAnyPortfolio(p) ==
    {v \in versions : v.version_number = MaxNumber(versions)}

\* select(PortfolioVersion).where(portfolio_id == p)
\*   .order_by(desc(version_number)).limit(1): the rows the query may return
LatestRows(p) ==
    {v \in VersionsOf(p) : v.version_number = MaxNumber(VersionsOf(p))}

\* variant: the statement without its where(portfolio_id == p) clause
SelectedRowsOfAnyPortfolio(vid, p) == {v \in versions : v.id = vid}

\* select(PortfolioVersion).where(id == vid).where(portfolio_id == p)
SelectedRows(vid, p) == {v \in VersionsOf(p) : v.id = vid}

\* -------------------------------------------------------------- the session
\* UPDATE portfolios emitted by the unit of work at commit: only the
\* attributes whose value differs from the loaded one are written
FlushPortfolio(row, loaded, obj) ==
    [exists |-> TRUE,
     status |-> IF obj.status # loaded.status THEN obj.status ELSE row.status,
     current_version_id |->
        IF obj.current_version_id # loaded.current_version_id
        THEN obj.current_version_id ELSE row.current_version_id,
     error_message |->
        IF obj.error_message # loaded.error_message
        THEN obj.error_message ELSE row.error_message,
     public_portfolio_json |->
        IF obj.public_portfolio_json # loaded.public_portfolio_json
        THEN obj.public_portfolio_json ELSE row.public_portfolio_json,
     private_coaching_json |->
        IF obj.private_coaching_json # loaded.private_coaching_json
        THEN obj.private_coaching_json ELSE row.private_coaching_json]

\* the version rows a session's statements see: the committed rows and the
\* row the session has flushed
VisibleVersions(rq) ==
    versions \cup (IF rq.flushed THEN {rq.new_version} ELSE {})

\* rows of the version table after COMMIT of a session's transaction
CommittedVersions(rq) ==
    {v \in VisibleVersions(rq) : v.id \notin rq.deleted}

\* COMMIT of request r's transaction
CommitTx(r) ==
    LET rq == req[r] IN
    /\ lock \in {0, r}
    /\ versions' = CommittedVersions(rq)
    /\ portfolios' = [portfolios EXCEPT ![rq.pid] =
                        FlushPortfolio(@, rq.loaded, rq.portfolio)]
    /\ issued' = [issued EXCEPT ![rq.pid] =
                    IF rq.flushed /\ rq.new_version.version_number > @
                    THEN rq.new_version.version_number ELSE @]
    /\ nextId' = IF rq.flushed THEN nextId + 1 ELSE nextId
    /\ lock' = 0
    /\ UNCHANGED merge

\* the request once its new version is flushed: the locals read so far are
\* not read again, what remains is the session's unit of work
Flushed(rq, next_pc, new_version, portfolio) ==
    [IdleReq EXCEPT !.op = rq.op, !.pc = next_pc, !.pid = rq.pid,
                    !.version_id = rq.version_id,
                    !.content_failed = rq.content_failed,
                    !.loaded = rq.loaded, !.portfolio = portfolio,
                    !.new_version = new_version, !.flushed = TRUE]

\* the request after COMMIT: the new version is all that is read again
Committed(rq, next_pc) ==
    [IdleReq EXCEPT !.op = rq.op, !.pc = next_pc, !.pid = rq.pid,
                    !.content_failed = rq.content_failed,
                    !.new_version = rq.new_version]

\* the request slot once its handler has ended: the response, and what the
\* request was (operation, portfolio, version addressed, version created);
\* a handler that was cut off has answered nothing about a portfolio
Done(rq, res) ==
    [IdleReq EXCEPT !.op = rq.op, !.pc = "done",
                    !.pid = IF res = "aborted" THEN 0 ELSE rq.pid,
                    !.version_id = IF res = "err400" THEN rq.version_id ELSE 0,
                    !.updates = rq.updates,
                    !.new_version = IF res = "ok" THEN rq.new_version ELSE NoVersion,
                    !.result = res]

\* the handler ends without touching the store
Finish(r, res) ==
    /\ req' = [req EXCEPT ![r] = Done(@, res)]
    /\ UNCHANGED <<portfolios, versions, lock, nextId, issued, merge>>

Init ==
    /\ portfolios = [p \in Pids |-> NoPortfolio]
    /\ versions = {}
    /\ lock = 0
    /\ nextId = 1
    /\ issued = [p \in Pids |-> 0]
    /\ req = [r \in Reqs |-> IdleReq]
    /\ merge = NoMerge

\* ----------------------------------------------------------------- generate
\* steps 1-2: the portfolio record is created with status generating and
\* committed (db.commit() of step 2)
GenerateStart(r, P) ==
    /\ req[r].pc = "idle"
    /\ lock = 0
    /\ \E p \in P :
        /\ ~portfolios[p].exists
        /\ \A q \in P : q < p => portfolios[q].exists
        /\ portfolios' = [portfolios EXCEPT ![p] = Portfolio("generating")]
        /\ req' = [req EXCEPT ![r] =
                     [IdleReq EXCEPT !.op = "generate", !.pc = "g_refresh",
                                     !.pid = p,
                                     !.loaded = Portfolio("generating"),
                                     !.portfolio = Portfolio("generating")]]
    /\ UNCHANGED <<versions, lock, nextId, issued, merge>>

\* db.commit() of step 2 raises: no record is stored, the commit of the
\* outer except raises as well and the request is answered 500
GenerateStartError(r, P) ==
    /\ req[r].pc = "idle"
    /\ \E p \in P :
        /\ ~portfolios[p].exists
        /\ \A q \in P : q < p => portfolios[q].exists
        /\ req' = [req EXCEPT ![r] =
                     [IdleReq EXCEPT !.op = "generate", !.pc = "done",
                                     !.pid = p, !.result = "err500"]]
    /\ UNCHANGED <<portfolios, versions, lock, nextId, issued, merge>>

\* step 2: db.refresh(portfolio)
GenerateRefresh(r) ==
    /\ req[r].pc = "g_refresh"
    /\ req' = [req EXCEPT ![r] = [@ EXCEPT !.pc = "g_fetch"]]
    /\ UNCHANGED <<portfolios, versions, lock, nextId, issued, merge>>

\* step 3: the data sources are fetched; step 4 puts them on the record
GenerateFetch(r) ==
    /\ req[r].pc = "g_fetch"
    /\ req' = [req EXCEPT ![r] = [@ EXCEPT !.pc = "g_store"]]
    /\ UNCHANGED <<portfolios, versions, lock, nextId, issued, merge>>

\* step 4: db.commit() of the raw data, which is in none of the columns
\* followed here; the commit takes and releases the write lock
GenerateStore(r) ==
    /\ req[r].pc = "g_store"
    /\ lock = 0
    /\ req' = [req EXCEPT ![r] = [@ EXCEPT !.pc = "g_content"]]
    /\ UNCHANGED <<portfolios, versions, lock, nextId, issued, merge>>

\* step 7: the generator's content, or the template fallback when it raises
PublicContent(raised) ==
    IF raised THEN TemplateContent ELSE GeneratedContent

\* steps 7-8: content and coaching generation, each with its template fallback
GenerateContent(r) ==
    LET rq == req[r] IN
    /\ rq.pc = "g_content"
    /\ \E raised \in BOOLEAN :
        req' = [req EXCEPT ![r] =
                  [rq EXCEPT !.pc = "g_flush",
                             !.content_failed = raised,
                             !.public_portfolio_json =
                                 build_public_portfolio_json(rq.pid,
                                     PublicContent(raised)),
                             !.private_coaching_json = CoachingContent]]
    /\ UNCHANGED <<portfolios, versions, lock, nextId, issued, merge>>

\* variant: the portfolio is repointed but not set completed
GenerateFlushKeepsStatus(r) ==
    LET rq == req[r] IN
    /\ rq.pc = "g_flush"
    /\ lock \in {0, r}
    /\ nextId <= MaxVersionIds
    /\ lock' = r
    /\ req' = [req EXCEPT ![r] =
                 Flushed(rq, "g_commit",
                               PortfolioVersion(nextId, rq.pid, 1, COMMITTED,
                                   rq.public_portfolio_json,
                                   rq.private_coaching_json,
                                   <<"Initial portfolio generation", 0>>, AI),
                               [rq.portfolio EXCEPT !.current_version_id = nextId])]
    /\ UNCHANGED <<portfolios, versions, nextId, issued, merge>>

\* steps 10-11: version 1 is added and flushed, the portfolio object repointed
GenerateFlush(r) ==
    LET rq == req[r] IN
    /\ rq.pc = "g_flush"
    /\ lock \in {0, r}
    /\ nextId <= MaxVersionIds
    /\ lock' = r
    /\ req' = [req EXCEPT ![r] =
                 Flushed(rq, "g_commit",
                               PortfolioVersion(nextId, rq.pid, 1, COMMITTED,
                                   rq.public_portfolio_json,
                                   rq.private_coaching_json,
                                   <<"Initial portfolio generation", 0>>, AI),
                               [rq.portfolio EXCEPT !.current_version_id = nextId,
                                         !.status = "completed"])]
    /\ UNCHANGED <<portfolios, versions, nextId, issued, merge>>

GenerateCommit(r) ==
    /\ req[r].pc = "g_commit"
    /\ CommitTx(r)
    /\ req' = [req EXCEPT ![r] = Committed(@, "g_return")]

\* step 12: the response is built
GenerateReturn(r) ==
    /\ req[r].pc = "g_return"
    /\ Finish(r, "ok")

\* the outer except: the refresh, the fetch or a step before the version
\* is built raised; the portfolio is marked error and committed
GenerateError(r) ==
    LET rq == req[r] IN
    /\ rq.pc \in {"g_refresh", "g_fetch", "g_content", "g_flush"}
    /\ lock = 0
    /\ portfolios' = [portfolios EXCEPT ![rq.pid] =
                        FlushPortfolio(@, rq.loaded,
                            [rq.portfolio EXCEPT !.status = "error",
                                                 !.error_message = TRUE])]
    /\ req' = [req EXCEPT ![r] = Done(@, "err500")]
    /\ UNCHANGED <<versions, lock, nextId, issued, merge>>

\* variant: the commit of the except block goes through after the version
\* was flushed, and persists the flushed unit of work with status error
GenerateRollbackCommitting(r) ==
    LET rq == req[r] IN
    /\ rq.pc \in {"g_store", "g_flush", "g_commit"}
    /\ lock \in {0, r}
    /\ versions' = CommittedVersions(rq)
    /\ portfolios' = [portfolios EXCEPT ![rq.pid] =
                        FlushPortfolio(@, rq.loaded,
                            [rq.portfolio EXCEPT !.status = "error",
                                                 !.error_message = TRUE])]
    /\ issued' = [issued EXCEPT ![rq.pid] =
                    IF rq.flushed /\ rq.new_version.version_number > @
                    THEN rq.new_version.version_number ELSE @]
    /\ nextId' = IF rq.flushed THEN nextId + 1 ELSE nextId
    /\ lock' = 0
    /\ req' = [req EXCEPT ![r] = Done(@, "err500")]
    /\ UNCHANGED merge

\* db.commit() of step 4, db.flush() of step 10 or db.commit() of step 11
\* raises (the database is locked, the disk fails): the session's
\* transaction is no longer usable, so the commit of the outer except
\* raises as well and get_db rolls the unit of work back; the portfolio
\* keeps the status committed in step 2
GenerateRollback(r) ==
    LET rq == req[r] IN
    /\ rq.pc \in {"g_store", "g_flush", "g_commit"}
    /\ req' = [req EXCEPT ![r] = Done(@, "err500")]
    /\ lock' = IF lock = r THEN 0 ELSE lock
    /\ UNCHANGED <<portfolios, versions, nextId, issued, merge>>

\* ------------------------------------------------------------------- refine
\* step 1: resolve the portfolio by slug
RefineStart(r, P) ==
    /\ req[r].pc = "idle"
    /\ \E p \in P :
        req' = [req EXCEPT ![r] =
                  IF portfolios[p].exists
                  THEN [IdleReq EXCEPT !.op = "refine", !.pc = "r_latest",
                                       !.pid = p, !.loaded = portfolios[p],
                                       !.portfolio = portfolios[p]]
                  ELSE [IdleReq EXCEPT !.op = "refine", !.pc = "done",
                                       !.pid = p, !.result = "err404"]]
    /\ UNCHANGED <<portfolios, versions, lock, nextId, issued, merge>>

\* step 2: fetch the latest version
RefineReadLatest(r) ==
    LET rq == req[r] IN
    /\ rq.pc = "r_latest"
    /\ \/ /\ LatestRows(rq.pid) = {}
          /\ Finish(r, "err400")
       \/ \E v \in LatestRows(rq.pid) :
            IF Truthy(v.public_portfolio_json)
            THEN /\ req' = [req EXCEPT ![r] =
                              [@ EXCEPT !.pc = "r_ai", !.latest_version = v]]
                 /\ UNCHANGED <<portfolios, versions, lock, nextId, issued, merge>>
            ELSE Finish(r, "err400")

\* variant: a refiner failure marks the portfolio error, as generate does
RefineAIMarksError(r) ==
    LET rq == req[r] IN
    /\ rq.pc = "r_ai"
    /\ \/ /\ lock = 0
          /\ portfolios' = [portfolios EXCEPT ![rq.pid] =
                              [@ EXCEPT !.status = "error", !.error_message = TRUE]]
          /\ req' = [req EXCEPT ![r] = Done(@, "err500")]
          /\ UNCHANGED <<versions, lock, nextId, issued, merge>>
       \/ /\ \E out \in RefinerOutputs(rq.latest_version.public_portfolio_json) :
                req' = [req EXCEPT ![r] =
                          [@ EXCEPT !.pc = "r_flush", !.refined_json = out]]
          /\ UNCHANGED <<portfolios, versions, lock, nextId, issued, merge>>

\* step 3: the refiner answers or raises
RefineAI(r) ==
    LET rq == req[r] IN
    /\ rq.pc = "r_ai"
    /\ \/ Finish(r, "err500")
       \/ /\ \E out \in RefinerOutputs(rq.latest_version.public_portfolio_json) :
                req' = [req EXCEPT ![r] =
                          [@ EXCEPT !.pc = "r_flush", !.refined_json = out]]
          /\ UNCHANGED <<portfolios, versions, lock, nextId, issued, merge>>

\* step 3, when the refiner rewrites a section it was told to leave alone
RefineAIRewrite(r) ==
    LET rq == req[r] IN
    /\ rq.pc = "r_ai"
    /\ \E out \in RewrittenOutputs(rq.latest_version.public_portfolio_json) :
            req' = [req EXCEPT ![r] =
                      [@ EXCEPT !.pc = "r_flush", !.refined_json = out]]
    /\ UNCHANGED <<portfolios, versions, lock, nextId, issued, merge>>

\* variant: the draft takes the number of the version it refines
RefineNewVersionNumberOfLatest(latest_version) == latest_version.version_number

\* step 4: new_version_number = latest_version.version_number + 1
RefineNewVersionNumber(latest_version) == latest_version.version_number + 1

\* variant: the refined version is stored as committed
RefineNewVersionCommitted(id, pid, latest_version, refined_json) ==
    PortfolioVersion(id, pid, RefineNewVersionNumber(latest_version), COMMITTED,
        refined_json, latest_version.private_coaching_json,
        <<"AI refinement: instruction", 0>>, AI_REFINEMENT)

\* variant: the draft is built without the coaching document
RefineNewVersionWithoutCoaching(id, pid, latest_version, refined_json) ==
    PortfolioVersion(id, pid, RefineNewVersionNumber(latest_version), DRAFT,
        refined_json, NoVersion.private_coaching_json,
        <<"AI refinement: instruction", 0>>, AI_REFINEMENT)

\* step 4: the draft refine builds from the latest version and the refiner's
\* document
RefineNewVersion(id, pid, latest_version, refined_json) ==
    PortfolioVersion(id, pid, RefineNewVersionNumber(latest_version), DRAFT,
        refined_json, latest_version.private_coaching_json,
        <<"AI refinement: instruction", 0>>, AI_REFINEMENT)

\* steps 4-5: the draft is added and flushed, the portfolio object repointed
RefineFlush(r) ==
    LET rq == req[r] IN
    /\ rq.pc = "r_flush"
    /\ lock \in {0, r}
    /\ nextId <= MaxVersionIds
    /\ lock' = r
    /\ req' = [req EXCEPT ![r] =
                 Flushed(rq, "r_commit",
                               RefineNewVersion(nextId, rq.pid, rq.latest_version,
                                                rq.refined_json),
                               [rq.portfolio EXCEPT !.current_version_id = nextId])]
    /\ UNCHANGED <<portfolios, versions, nextId, issued, merge>>

RefineCommit(r) ==
    /\ req[r].pc = "r_commit"
    /\ CommitTx(r)
    /\ req' = [req EXCEPT ![r] = Committed(@, "r_refresh")]

\* db.refresh(new_version) raises when the row is gone; step 6 builds
\* RefineResponse(portfolio_json=refined_json), which raises unless the
\* refiner's value is a dictionary
RefineRefresh(r) ==
    /\ req[r].pc = "r_refresh"
    /\ Finish(r, IF /\ req[r].new_version \in versions
                    /\ IsDict(req[r].new_version.public_portfolio_json)
                 THEN "ok" ELSE "err500")

\* ------------------------------------------------------------------ confirm
\* step 1: resolve the portfolio by slug
ConfirmStart(r, P) ==
    /\ req[r].pc = "idle"
    /\ \E p \in P :
        req' = [req EXCEPT ![r] =
                  IF portfolios[p].exists
                  THEN [IdleReq EXCEPT !.op = "confirm", !.pc = "c_latest",
                                       !.pid = p, !.loaded = portfolios[p],
                                       !.portfolio = portfolios[p]]
                  ELSE [IdleReq EXCEPT !.op = "confirm", !.pc = "done",
                                       !.pid = p, !.result = "err404"]]
    /\ UNCHANGED <<portfolios, versions, lock, nextId, issued, merge>>

\* step 2: fetch the latest version
ConfirmReadLatest(r) ==
    LET rq == req[r] IN
    /\ rq.pc = "c_latest"
    /\ \/ /\ LatestRows(rq.pid) = {}
          /\ Finish(r, "err400")
       \/ \E v \in LatestRows(rq.pid) :
            IF Truthy(v.public_portfolio_json)
            THEN /\ req' = [req EXCEPT ![r] =
                              [@ EXCEPT !.pc = "c_flush", !.latest_version = v]]
                 /\ UNCHANGED <<portfolios, versions, lock, nextId, issued, merge>>
            ELSE Finish(r, "err400")

\* variant: the confirmed copy reuses the number of the version it copies
ConfirmNewVersionNumberReused(latest_version) == latest_version.version_number

\* step 3: new_version_number = latest_version.version_number + 1
ConfirmNewVersionNumber(latest_version) == latest_version.version_number + 1

\* variant: the copy keeps the state and the author of the version it copies
ConfirmNewVersionKeepsState(id, pid, latest_version) ==
    PortfolioVersion(id, pid, ConfirmNewVersionNumber(latest_version),
        latest_version.version_state,
        latest_version.public_portfolio_json,
        latest_version.private_coaching_json,
        <<"Portfolio confirmed and finalized", 0>>, latest_version.created_by)

\* the committed copy confirm builds from the latest version
ConfirmNewVersion(id, pid, latest_version) ==
    PortfolioVersion(id, pid, ConfirmNewVersionNumber(latest_version), COMMITTED,
        latest_version.public_portfolio_json,
        latest_version.private_coaching_json,
        <<"Portfolio confirmed and finalized", 0>>, USER_MANUAL)

\* variant: the new version is committed on its own before the prune
ConfirmFlushCommitting(r) ==
    LET rq == req[r]
        nv == ConfirmNewVersion(nextId, rq.pid, rq.latest_version) IN
    /\ rq.pc = "c_flush"
    /\ lock = 0
    /\ nextId <= MaxVersionIds
    /\ versions' = versions \cup {nv}
    /\ req' = [req EXCEPT ![r] =
                 Flushed(rq, "c_delete", nv,
                         [rq.portfolio EXCEPT !.current_version_id = nextId,
                                              !.status = "completed"])]
    /\ UNCHANGED <<portfolios, lock, nextId, issued, merge>>

\* steps 3-4: the committed copy is added and flushed, the portfolio object
\* repointed and set completed
ConfirmFlush(r) ==
    LET rq == req[r] IN
    /\ rq.pc = "c_flush"
    /\ lock \in {0, r}
    /\ nextId <= MaxVersionIds
    /\ lock' = r
    /\ req' = [req EXCEPT ![r] =
                 Flushed(rq, "c_delete",
                               ConfirmNewVersion(nextId, rq.pid, rq.latest_version),
                               [rq.portfolio EXCEPT !.current_version_id = nextId,
                                         !.status = "completed"])]
    /\ UNCHANGED <<portfolios, versions, nextId, issued, merge>>

\* variant: the statement without its where(id != keep) clause
DeleteAll(rows, pid, keep) ==
    {v.id : v \in {w \in rows : w.portfolio_id = pid}}

\* variant: the statement deletes drafts only
DeleteDrafts(rows, pid, keep) ==
    {v.id : v \in {w \in rows : w.portfolio_id = pid /\ w.id # keep
                                  /\ w.version_state = DRAFT}}

\* delete(PortfolioVersion).where(portfolio_id == pid).where(id != keep):
\* the primary keys of the rows the statement deletes
DeleteOthers(rows, pid, keep) ==
    {v.id : v \in {w \in rows : w.portfolio_id = pid /\ w.id # keep}}

\* step 5: delete all other versions
ConfirmDelete(r) ==
    LET rq == req[r] IN
    /\ rq.pc = "c_delete"
    /\ req' = [req EXCEPT ![r] =
                 [@ EXCEPT !.pc = "c_commit",
                           !.deleted = DeleteOthers(VisibleVersions(rq), rq.pid,
                                                    rq.new_version.id)]]
    /\ UNCHANGED <<portfolios, versions, lock, nextId, issued, merge>>

ConfirmCommit(r) ==
    /\ req[r].pc = "c_commit"
    /\ CommitTx(r)
    /\ req' = [req EXCEPT ![r] = Committed(@, "c_refresh")]

\* db.refresh(committed_version) raises when the row is gone
ConfirmRefresh(r) ==
    /\ req[r].pc = "c_refresh"
    /\ Finish(r, IF req[r].new_version \in versions THEN "ok" ELSE "err500")

\* ------------------------------------------------------------------- revert
\* the version_id values a revert request is tried with: the id of every
\* version of the portfolio, the id of a version of another portfolio if
\* there is one, and an id that names no version
RequestVersionIds(p) ==
    LET own == {v.id : v \in VersionsOf(p)}
        foreign == {v.id : v \in versions} \ own
    IN own \cup {i \in foreign : \A j \in foreign : i <= j} \cup {nextId}

\* step 1: resolve the portfolio by slug
RevertStart(r, P) ==
    /\ req[r].pc = "idle"
    /\ \E p \in P : \E vid \in RequestVersionIds(p) :
        req' = [req EXCEPT ![r] =
                  IF portfolios[p].exists
                  THEN [IdleReq EXCEPT !.op = "revert", !.pc = "v_select",
                                       !.pid = p, !.version_id = vid,
                                       !.loaded = portfolios[p],
                                       !.portfolio = portfolios[p]]
                  ELSE [IdleReq EXCEPT !.op = "revert", !.pc = "done",
                                       !.pid = p, !.result = "err404"]]
    /\ UNCHANGED <<portfolios, versions, lock, nextId, issued, merge>>

\* step 2: fetch the selected version of this portfolio
RevertSelect(r) ==
    LET rq == req[r] IN
    /\ rq.pc = "v_select"
    /\ \/ /\ SelectedRows(rq.version_id, rq.pid) = {}
          /\ Finish(r, "err400")
       \/ /\ \E v \in SelectedRows(rq.version_id, rq.pid) :
                req' = [req EXCEPT ![r] =
                          [@ EXCEPT !.pc = "v_max", !.selected_version = v]]
          /\ UNCHANGED <<portfolios, versions, lock, nextId, issued, merge>>

\* step 3: the highest version number of the portfolio, 0 if it has no version
RevertReadMax(r) ==
    LET rq == req[r] IN
    /\ rq.pc = "v_max"
    /\ req' = [req EXCEPT ![r] =
                 [@ EXCEPT !.pc = "v_flush",
                           !.max_version_number = MaxNumber(VersionsOf(rq.pid))]]
    /\ UNCHANGED <<portfolios, versions, lock, nextId, issued, merge>>

\* variant: the restored copy is numbered after the version it restores
RevertNewVersionNumberAfterTarget(selected_version, max_version_number) ==
    selected_version.version_number + 1

\* step 3: new_version_number = max_version_number + 1
RevertNewVersionNumber(selected_version, max_version_number) ==
    max_version_number + 1

\* the committed copy revert builds from the selected version
RevertNewVersion(id, pid, selected_version, max_version_number) ==
    PortfolioVersion(id, pid,
        RevertNewVersionNumber(selected_version, max_version_number), COMMITTED,
        selected_version.public_portfolio_json,
        selected_version.private_coaching_json,
        <<"Reverted to version", selected_version.version_number>>, USER_MANUAL)

\* variant: the portfolio is set completed but not repointed
RevertFlushWithoutRepoint(r) ==
    LET rq == req[r] IN
    /\ rq.pc = "v_flush"
    /\ lock \in {0, r}
    /\ nextId <= MaxVersionIds
    /\ lock' = r
    /\ req' = [req EXCEPT ![r] =
                 Flushed(rq, "v_delete",
                               RevertNewVersion(nextId, rq.pid, rq.selected_version,
                                                rq.max_version_number),
                               [rq.portfolio EXCEPT !.status = "completed"])]
    /\ UNCHANGED <<portfolios, versions, nextId, issued, merge>>

\* steps 4-5: the committed copy is added and flushed, the portfolio object
\* repointed and set completed
RevertFlush(r) ==
    LET rq == req[r] IN
    /\ rq.pc = "v_flush"
    /\ lock \in {0, r}
    /\ nextId <= MaxVersionIds
    /\ lock' = r
    /\ req' = [req EXCEPT ![r] =
                 Flushed(rq, "v_delete",
                               RevertNewVersion(nextId, rq.pid, rq.selected_version,
                                                rq.max_version_number),
                               [rq.portfolio EXCEPT !.current_version_id = nextId,
                                         !.status = "completed"])]
    /\ UNCHANGED <<portfolios, versions, nextId, issued, merge>>

\* step 6: delete all other versions
RevertDelete(r) ==
    LET rq == req[r] IN
    /\ rq.pc = "v_delete"
    /\ req' = [req EXCEPT ![r] =
                 [@ EXCEPT !.pc = "v_commit",
                           !.deleted = DeleteOthers(VisibleVersions(rq), rq.pid,
                                                    rq.new_version.id)]]
    /\ UNCHANGED <<portfolios, versions, lock, nextId, issued, merge>>

RevertCommit(r) ==
    /\ req[r].pc = "v_commit"
    /\ CommitTx(r)
    /\ req' = [req EXCEPT ![r] = Committed(@, "v_refresh")]

\* db.refresh(committed_version) raises when the row is gone
RevertRefresh(r) ==
    /\ req[r].pc = "v_refresh"
    /\ Finish(r, IF req[r].new_version \in versions THEN "ok" ELSE "err500")

\* ---------------------------------------------------------- retrieval
\* get_public_portfolio: the portfolio is selected by slug and its status
\* checked; current_version is loaded by a second statement
GetPublicStart(r, P) ==
    /\ req[r].pc = "idle"
    /\ \E p \in P :
        LET answer(res) == [IdleReq EXCEPT !.op = "get_public", !.pc = "done",
                                           !.pid = p, !.result = res] IN
        req' = [req EXCEPT ![r] =
                  IF ~portfolios[p].exists THEN answer("err404")
                  ELSE IF portfolios[p].status = "generating" THEN answer("status202")
                  ELSE IF portfolios[p].status = "error" THEN answer("err500")
                  ELSE IF portfolios[p].status = "draft" THEN answer("err400")
                  ELSE [IdleReq EXCEPT !.op = "get_public", !.pc = "p_load",
                                       !.pid = p, !.loaded = portfolios[p],
                                       !.portfolio = portfolios[p]]]
    /\ UNCHANGED <<portfolios, versions, lock, nextId, issued, merge>>

\* selectinload(Portfolio.current_version), then the answer: the public
\* JSON of the current version, or 500 when there is none, it is falsy or
\* it does not validate as the response model Dict[str, Any]
GetPublicLoad(r) ==
    LET rq == req[r]
        rows == {v \in versions : v.id = rq.portfolio.current_version_id} IN
    /\ rq.pc = "p_load"
    /\ \/ /\ rows = {}
          /\ Finish(r, "err500")
       \/ \E current_version \in rows :
            IF /\ Truthy(current_version.public_portfolio_json)
               /\ IsDict(current_version.public_portfolio_json)
            THEN /\ req' = [req EXCEPT ![r] =
                              [Done(rq, "ok") EXCEPT
                                 !.public_portfolio_json =
                                     current_version.public_portfolio_json]]
                 /\ UNCHANGED <<portfolios, versions, lock, nextId, issued, merge>>
            ELSE Finish(r, "err500")

\* ----------------------------------------------------- editing router
\* The handlers of routers/portfolio_editing_router.py: edit_portfolio,
\* refine_portfolio_section and restore_portfolio_version, with the
\* _create_version_snapshot they share.  They work on the JSON columns of
\* the portfolio row itself, which no handler of the other routers writes.
\* The actions are the handlers as the router declares them; main.py keeps
\* the include of this router in a comment (line 86).

\* _create_version_snapshot: next_version_number = len(versions) + 1
SnapshotVersionNumber(rows) == Cardinality(rows) + 1

\* _create_version_snapshot: the row holds the JSON columns of the
\* portfolio; version_state is not given and takes the column default
create_version_snapshot(id, pid, portfolio, next_version_number, created_by, changes_summary) ==
    PortfolioVersion(id, pid, next_version_number, DRAFT,
        portfolio.public_portfolio_json, portfolio.private_coaching_json,
        changes_summary, created_by)

\* db.add(version); db.commit() of _create_version_snapshot: the row is
\* inserted and committed on its own
SnapshotCommit(r, next_pc, created_by, changes_summary) ==
    LET rq == req[r]
        version == create_version_snapshot(nextId, rq.pid, rq.portfolio,
                       rq.next_version_number, created_by, changes_summary) IN
    /\ lock = 0
    /\ nextId <= MaxSnapshotIds
    /\ versions' = versions \cup {version}
    /\ nextId' = nextId + 1
    /\ issued' = [issued EXCEPT ![rq.pid] =
                    IF version.version_number > @ THEN version.version_number ELSE @]
    /\ req' = [req EXCEPT ![r] = [@ EXCEPT !.pc = next_pc, !.new_version = version]]
    /\ UNCHANGED <<portfolios, lock, merge>>

\* edit_portfolio: resolve the portfolio by slug, reject one without content
EditStart(r, P) ==
    /\ req[r].pc = "idle"
    /\ \E p \in P, updates \in EditUpdates :
        req' = [req EXCEPT ![r] =
                  IF ~portfolios[p].exists
                  THEN [IdleReq EXCEPT !.op = "edit", !.pc = "done",
                                       !.pid = p, !.updates = updates,
                                       !.result = "err404"]
                  ELSE IF ~Truthy(portfolios[p].public_portfolio_json)
                  THEN [IdleReq EXCEPT !.op = "edit", !.pc = "done",
                                       !.pid = p, !.updates = updates,
                                       !.result = "err400"]
                  ELSE [IdleReq EXCEPT !.op = "edit", !.pc = "e_versions",
                                       !.pid = p, !.updates = updates,
                                       !.loaded = portfolios[p],
                                       !.portfolio = portfolios[p]]]
    /\ UNCHANGED <<portfolios, versions, lock, nextId, issued, merge>>

\* _create_version_snapshot: all versions of the portfolio are read and counted
EditReadVersions(r) ==
    LET rq == req[r] IN
    /\ rq.pc = "e_versions"
    /\ req' = [req EXCEPT ![r] =
                 [@ EXCEPT !.pc = "e_snapshot",
                           !.next_version_number =
                               SnapshotVersionNumber(VersionsOf(rq.pid))]]
    /\ UNCHANGED <<portfolios, versions, lock, nextId, issued, merge>>

\* _create_version_snapshot: the snapshot is committed before the edit
EditSnapshot(r) ==
    /\ req[r].pc = "e_snapshot"
    /\ SnapshotCommit(r, "e_commit", USER_MANUAL, <<"Manual edit", 0>>)

\* the updates are merged into the portfolio's own JSON column and
\* committed; a merge that raises ends the request with 500 after the
\* snapshot was committed
EditCommit(r) ==
    LET rq == req[r]
        merged == updated_portfolio(rq.portfolio.public_portfolio_json,
                                    rq.updates) IN
    /\ rq.pc = "e_commit"
    /\ lock = 0
    /\ IF merged.raised # "none"
       THEN /\ req' = [req EXCEPT ![r] = Done(@, "err500")]
            /\ UNCHANGED portfolios
       ELSE /\ portfolios' = [portfolios EXCEPT ![rq.pid] =
                                FlushPortfolio(@, rq.loaded,
                                    [rq.portfolio EXCEPT
                                        !.public_portfolio_json = merged.document])]
            /\ req' = [req EXCEPT ![r] = [@ EXCEPT !.pc = "e_refresh"]]
    /\ UNCHANGED <<versions, lock, nextId, issued, merge>>

\* db.refresh(portfolio) and the response
EditRefresh(r) ==
    /\ req[r].pc = "e_refresh"
    /\ Finish(r, "ok")

\* restore_portfolio_version: resolve the portfolio by slug
RestoreStart(r, P) ==
    /\ req[r].pc = "idle"
    /\ \E p \in P : \E vid \in RequestVersionIds(p) :
        req' = [req EXCEPT ![r] =
                  IF portfolios[p].exists
                  THEN [IdleReq EXCEPT !.op = "restore", !.pc = "s_select",
                                       !.pid = p, !.version_id = vid,
                                       !.loaded = portfolios[p],
                                       !.portfolio = portfolios[p]]
                  ELSE [IdleReq EXCEPT !.op = "restore", !.pc = "done",
                                       !.pid = p, !.result = "err404"]]
    /\ UNCHANGED <<portfolios, versions, lock, nextId, issued, merge>>

\* the version is selected by id alone and its portfolio compared afterwards
RestoreSelect(r) ==
    LET rq == req[r]
        rows == {v \in versions : v.id = rq.version_id} IN
    /\ rq.pc = "s_select"
    /\ \/ /\ \A v \in rows : v.portfolio_id # rq.pid
          /\ Finish(r, "err404")
       \/ /\ \E v \in rows :
                /\ v.portfolio_id = rq.pid
                /\ req' = [req EXCEPT ![r] =
                             [@ EXCEPT !.pc = "s_versions", !.version = v]]
          /\ UNCHANGED <<portfolios, versions, lock, nextId, issued, merge>>

\* _create_version_snapshot: all versions of the portfolio are read and counted
RestoreReadVersions(r) ==
    LET rq == req[r] IN
    /\ rq.pc = "s_versions"
    /\ req' = [req EXCEPT ![r] =
                 [@ EXCEPT !.pc = "s_snapshot",
                           !.next_version_number =
                               SnapshotVersionNumber(VersionsOf(rq.pid))]]
    /\ UNCHANGED <<portfolios, versions, lock, nextId, issued, merge>>

\* _create_version_snapshot: the current columns are committed as a snapshot
RestoreSnapshot(r) ==
    /\ req[r].pc = "s_snapshot"
    /\ SnapshotCommit(r, "s_commit", USER_MANUAL,
                      <<"Before restoring version", req[r].version.version_number>>)

\* the JSON columns of the portfolio are set to those of the version
RestoreCommit(r) ==
    LET rq == req[r] IN
    /\ rq.pc = "s_commit"
    /\ lock = 0
    /\ portfolios' = [portfolios EXCEPT ![rq.pid] =
                        FlushPortfolio(@, rq.loaded,
                            [rq.portfolio EXCEPT
                                !.public_portfolio_json =
                                    rq.version.public_portfolio_json,
                                !.private_coaching_json =
                                    rq.version.private_coaching_json])]
    /\ req' = [req EXCEPT ![r] = [@ EXCEPT !.pc = "s_refresh"]]
    /\ UNCHANGED <<versions, lock, nextId, issued, merge>>

\* db.refresh(portfolio) and the response
RestoreRefresh(r) ==
    /\ req[r].pc = "s_refresh"
    /\ Finish(r, "ok")

\* the section names a refine request of the editing router is tried with:
\* a field of the generated content, and a name that is no field of it
RefineSections == {"professional_summary", "hobbies"}

\* portfolio.public_portfolio_json.get("ai_generated_content", {}) and the
\* test 'section not in ai_content'
SectionFound(doc, section) ==
    /\ "ai_generated_content" \in doc.sections
    /\ section = "professional_summary"

\* refine_portfolio_section: resolve the portfolio by slug, reject one
\* without content or without the section; .get raises on a value that is
\* not a dictionary
RefineSectionStart(r, P) ==
    /\ req[r].pc = "idle"
    /\ \E p \in P, section \in RefineSections :
        LET answer(res) == [IdleReq EXCEPT !.op = "refine_section", !.pc = "done",
                                           !.pid = p, !.result = res]
            doc == portfolios[p].public_portfolio_json IN
        req' = [req EXCEPT ![r] =
                  IF ~portfolios[p].exists THEN answer("err404")
                  ELSE IF ~Truthy(doc) THEN answer("err400")
                  ELSE IF ~IsDict(doc) THEN answer("err500")
                  ELSE IF ~SectionFound(doc, section) THEN answer("err400")
                  ELSE [IdleReq EXCEPT !.op = "refine_section", !.pc = "x_ai",
                                       !.pid = p, !.loaded = portfolios[p],
                                       !.portfolio = portfolios[p]]]
    /\ UNCHANGED <<portfolios, versions, lock, nextId, issued, merge>>

\* refine_section answers with the refined text or raises
RefineSectionAI(r) ==
    /\ req[r].pc = "x_ai"
    /\ \/ Finish(r, "err500")
       \/ /\ req' = [req EXCEPT ![r] = [@ EXCEPT !.pc = "x_versions"]]
          /\ UNCHANGED <<portfolios, versions, lock, nextId, issued, merge>>

\* _create_version_snapshot: all versions of the portfolio are read and counted
RefineSectionReadVersions(r) ==
    LET rq == req[r] IN
    /\ rq.pc = "x_versions"
    /\ req' = [req EXCEPT ![r] =
                 [@ EXCEPT !.pc = "x_snapshot",
                           !.next_version_number =
                               SnapshotVersionNumber(VersionsOf(rq.pid))]]
    /\ UNCHANGED <<portfolios, versions, lock, nextId, issued, merge>>

\* _create_version_snapshot(created_by="ai_refinement"): the snapshot is
\* committed before the update
RefineSectionSnapshot(r) ==
    /\ req[r].pc = "x_snapshot"
    /\ SnapshotCommit(r, "x_commit", AI_REFINEMENT,
                      <<"AI refinement of professional_summary: instruction", 0>>)

\* variant: the write into the dictionary is tracked and flushed to the
\* rows whose attribute holds that dictionary, the snapshot among them
RefineSectionCommitTracked(r) ==
    LET rq == req[r]
        refined == [rq.new_version EXCEPT
                      !.public_portfolio_json.ai_generated_content = RefinedContent] IN
    /\ rq.pc = "x_commit"
    /\ lock = 0
    /\ versions' = (versions \ {rq.new_version}) \cup {refined}
    /\ req' = [req EXCEPT ![r] = [@ EXCEPT !.pc = "x_refresh", !.new_version = refined]]
    /\ UNCHANGED <<portfolios, lock, nextId, issued, merge>>

\* the refined text is written into the dictionary the column attribute
\* holds; no attribute is assigned, so the unit of work has no change of
\* a JSON column and the commit writes updated_at alone
RefineSectionCommit(r) ==
    /\ req[r].pc = "x_commit"
    /\ lock = 0
    /\ req' = [req EXCEPT ![r] = [@ EXCEPT !.pc = "x_refresh"]]
    /\ UNCHANGED <<portfolios, versions, lock, nextId, issued, merge>>

\* db.refresh(portfolio) and the response
RefineSectionRefresh(r) ==
    /\ req[r].pc = "x_refresh"
    /\ Finish(r, "ok")

\* ---------------------------------------------------------- request plumbing
\* a statement of the unit of work (flush, delete, commit) raises, for
\* instance 'database is locked': the handler does not catch it, get_db
\* rolls the transaction back and the request is answered 500
WriteError(r) ==
    /\ req[r].pc \in {"r_flush", "r_commit",
                      "c_flush", "c_delete", "c_commit",
                      "v_flush", "v_delete", "v_commit",
                      "e_snapshot", "e_commit", "s_snapshot", "s_commit",
                      "x_snapshot", "x_commit"}
    /\ req' = [req EXCEPT ![r] = Done(@, "err500")]
    /\ lock' = IF lock = r THEN 0 ELSE lock
    /\ UNCHANGED <<portfolios, versions, nextId, issued, merge>>

\* the handler dies at an await (process crash, connection error,
\* cancellation): the open transaction is rolled back
Abort(r) ==
    /\ req[r].pc \notin {"idle", "done"}
    /\ req' = [req EXCEPT ![r] = Done(@, "aborted")]
    /\ lock' = IF lock = r THEN 0 ELSE lock
    /\ UNCHANGED <<portfolios, versions, nextId, issued, merge>>

\* the response is sent and get_db closes the session (finally:
\* session.close()): the slot is free for the next request
Close(r) ==
    /\ req[r].pc = "done"
    /\ req' = [req EXCEPT ![r] = IdleReq]
    /\ UNCHANGED <<portfolios, versions, lock, nextId, issued, merge>>

\* the steps of generate, confirm and revert, and the request plumbing
BaseStep(r, P) ==
    \/ GenerateStart(r, P)
    \/ GenerateStartError(r, P)
    \/ GenerateRefresh(r)
    \/ GenerateFetch(r)
    \/ GenerateStore(r)
    \/ GenerateContent(r)
    \/ GenerateFlush(r)
    \/ GenerateCommit(r)
    \/ GenerateReturn(r)
    \/ GenerateError(r)
    \/ GenerateRollback(r)
    \/ ConfirmStart(r, P)
    \/ ConfirmReadLatest(r)
    \/ ConfirmFlush(r)
    \/ ConfirmDelete(r)
    \/ ConfirmCommit(r)
    \/ ConfirmRefresh(r)
    \/ RevertStart(r, P)
    \/ RevertSelect(r)
    \/ RevertReadMax(r)
    \/ RevertFlush(r)
    \/ RevertDelete(r)
    \/ RevertCommit(r)
    \/ RevertRefresh(r)
    \/ WriteError(r)
    \/ Abort(r)
    \/ Close(r)

\* the steps of refine_portfolio
RefineStep(r, P) ==
    \/ RefineStart(r, P)
    \/ RefineReadLatest(r)
    \/ RefineAI(r)
    \/ RefineFlush(r)
    \/ RefineCommit(r)
    \/ RefineRefresh(r)

\* the handlers of the generation and the refinement router
Step(r, P) == BaseStep(r, P) \/ RefineStep(r, P)

\* handlers of up to NumRequests requests interleave at their awaits
Next == \E r \in Reqs : Step(r, ConcurrentPids)

Spec == Init /\ [][Next]_vars

\* handlers run one at a time
NextSeq == \E r \in SeqReqs : Step(r, Pids)

SpecSeq == Init /\ [][NextSeq]_vars

\* handlers run one at a time, and the refiner may rewrite personal_info
NextRewrite == \E r \in SeqReqs : Step(r, Pids) \/ RefineAIRewrite(r)

SpecRewrite == Init /\ [][NextRewrite]_vars

\* the steps of the handlers of the editing router
EditStep(r, P) ==
    \/ EditStart(r, P)
    \/ EditReadVersions(r)
    \/ EditSnapshot(r)
    \/ EditCommit(r)
    \/ EditRefresh(r)
    \/ RefineSectionStart(r, P)
    \/ RefineSectionAI(r)
    \/ RefineSectionReadVersions(r)
    \/ RefineSectionSnapshot(r)
    \/ RefineSectionCommit(r)
    \/ RefineSectionRefresh(r)
    \/ RestoreStart(r, P)
    \/ RestoreSelect(r)
    \/ RestoreReadVersions(r)
    \/ RestoreSnapshot(r)
    \/ RestoreCommit(r)
    \/ RestoreRefresh(r)

\* the handlers of the generation, the refinement and the editing router,
\* run one at a time
NextEdit == \E r \in SeqReqs : Step(r, Pids) \/ EditStep(r, Pids)

SpecEdit == Init /\ [][NextEdit]_vars

\* handlers run one at a time, public retrieval among them; retrieval
\* writes nothing, so the other specifications leave it out
NextRead ==
    \E r \in SeqReqs :
        Step(r, Pids) \/ GetPublicStart(r, Pids) \/ GetPublicLoad(r)

SpecRead == Init /\ [][NextRead]_vars

\* ---------------------------------------------------- merge as a function
\* a caller holds a value and calls merge_portfolio_updates with updates
MergeCall ==
    /\ merge.pc \in {"idle", "returned", "raised"}
    /\ \E doc \in MergeDocs, updates \in MergeUpdates :
          merge' = [pc |-> "called", heap |-> [i \in {1} |-> doc],
                    input |-> doc, updates |-> updates, updated |-> 0,
                    raised |-> "none"]
    /\ UNCHANGED <<portfolios, versions, lock, nextId, issued, req>>

\* the call returns or raises: the heap after it, the object returned
MergeReturn ==
    LET out == merge_portfolio_updates(merge.heap, 1, merge.updates) IN
    /\ merge.pc = "called"
    /\ merge' = [merge EXCEPT
                   !.pc = IF out.raised = "none" THEN "returned" ELSE "raised",
                   !.heap = out.heap, !.updated = out.updated,
                   !.raised = out.raised]
    /\ UNCHANGED <<portfolios, versions, lock, nextId, issued, req>>

NextMerge == MergeCall \/ MergeReturn

SpecMerge == Init /\ [][NextMerge]_vars

\* ======================================================================
\* Properties
\* ======================================================================
InFlight(r) == req[r].pc \notin {"idle", "done"}

\* the handler of r has answered successfully
Succeeded(r, op) ==
    /\ req[r].pc = "done"
    /\ req[r].op = op
    /\ req[r].result = "ok"

\* C1: with handlers run one at a time, every version that enters the store
\* carries the number 1 + the highest number ever committed for its
\* portfolio, pruned versions included.
C1_MonotonicNumbering ==
    [][\A v \in versions' \ versions :
          v.version_number = issued[v.portfolio_id] + 1]_vars

\* a draft numbered 3 created after a confirm pruned number 1: the store
\* holds the confirmed version 2 and the draft
C1_Witness ==
    \E v \in versions :
        /\ v.version_number = 3
        /\ v.version_state = DRAFT
        /\ {w.version_number : w \in VersionsOf(v.portfolio_id)} = {2, 3}
        /\ issued[v.portfolio_id] = 3

\* C2: the current_version_id of a portfolio is empty only while the
\* portfolio has no version, and otherwise is the id of exactly one stored
\* version, which belongs to that portfolio.
C2_SingleCurrentPointer ==
    \A p \in Pids :
        portfolios[p].exists =>
            LET cur == portfolios[p].current_version_id IN
            IF cur = 0
            THEN VersionsOf(p) = {}
            ELSE /\ Cardinality({v \in versions : v.id = cur}) = 1
                 /\ \A v \in versions : v.id = cur => v.portfolio_id = p

\* a manual edit has succeeded on a portfolio whose versions a revert had
\* pruned: the portfolio's current version is stored beside the version the
\* edit created
C2_Witness ==
    \E r \in SeqReqs :
        LET p == req[r].pid IN
        /\ Succeeded(r, "edit")
        /\ issued[p] >= 3
        /\ req[r].new_version \in VersionsOf(p)
        /\ portfolios[p].current_version_id # 0
        /\ portfolios[p].current_version_id # req[r].new_version.id

\* C3: once confirm or revert has committed, the store holds exactly one
\* version of the portfolio, the committed version the handler created.
C3_PruneLeavesOnlyNewVersion ==
    \A r \in SeqReqs :
        (\/ req[r].pc \in {"c_refresh", "v_refresh"}
         \/ Succeeded(r, "confirm")
         \/ Succeeded(r, "revert"))
        => /\ VersionsOf(req[r].pid) = {req[r].new_version}
           /\ req[r].new_version.version_state = COMMITTED

\* confirm on [v1 committed, v2 draft] has answered: only v3 remains
C3_Witness ==
    \E r \in SeqReqs :
        /\ Succeeded(r, "confirm")
        /\ req[r].new_version.version_number = 3
        /\ req[r].new_version.id = 3
        /\ VersionsOf(req[r].pid) = {req[r].new_version}

\* C4: every change a confirm or revert handler makes to the persisted
\* tables is the whole transition at once: the store goes from its state
\* before the handler to the new version alone, with the portfolio pointing
\* at it and completed.  A handler that dies earlier leaves the store as it was.
C4_ConfirmRevertAtomic ==
    [][\A r \in SeqReqs :
          (/\ req[r].op \in {"confirm", "revert"}
           /\ InFlight(r)
           /\ <<versions, portfolios>>' # <<versions, portfolios>>)
          => LET p == req[r].pid
                 n == req[r].new_version IN
             /\ n.id # 0
             /\ {v \in versions' : v.portfolio_id = p} = {n}
             /\ portfolios'[p].current_version_id = n.id
             /\ portfolios'[p].status = "completed"
             /\ \A q \in Pids \ {p} :
                   /\ portfolios'[q] = portfolios[q]
                   /\ {v \in versions' : v.portfolio_id = q} = VersionsOf(q)]_vars

\* confirm has flushed its version and executed the delete but not committed:
\* the persisted store still is the complete state before the transition
C4_Witness ==
    \E r \in SeqReqs :
        /\ req[r].pc \in {"c_commit", "v_commit"}
        /\ req[r].deleted # {}
        /\ Cardinality(VersionsOf(req[r].pid)) >= 2
        /\ req[r].new_version \notin versions
        /\ \E v \in VersionsOf(req[r].pid) :
              v.id = portfolios[req[r].pid].current_version_id

\* C5: two confirm calls on one portfolio never both succeed with both their
\* versions left in the store, and the prune of one never removes the
\* version of the other, which has answered successfully, without having
\* read it.
C5_ConcurrentConfirmsSerializable ==
    \A r1, r2 \in Reqs :
        (/\ r1 # r2
         /\ Succeeded(r1, "confirm")
         /\ req[r2].op = "confirm"
         /\ req[r2].pid = req[r1].pid
         /\ (req[r2].pc = "c_refresh" \/ Succeeded(r2, "confirm")))
        => /\ ~(/\ req[r1].new_version \in versions
                /\ req[r2].new_version \in versions)
           /\ ~(/\ req[r1].new_version \notin versions
                /\ req[r2].new_version.version_number
                      <= req[r1].new_version.version_number)

\* C6: at most one mutating handler per portfolio is between its read of
\* the versions and its commit.
InTransition(r) ==
    req[r].pc \in {"r_ai", "r_flush", "r_commit",
                   "c_flush", "c_delete", "c_commit",
                   "v_max", "v_flush", "v_delete", "v_commit"}

C6_AtMostOneInFlight ==
    \A r1, r2 \in Reqs :
        (r1 # r2 /\ InTransition(r1) /\ InTransition(r2))
        => req[r1].pid # req[r2].pid

\* C7: no two stored versions of a portfolio share a version_number.
C7_UniqueVersionNumbers ==
    \A v, w \in versions :
        (v.portfolio_id = w.portfolio_id /\ v.version_number = w.version_number)
        => v = w

\* C8: when the refiner raises, the refine handler ends with an error and
\* the persisted tables are exactly as before.
C8_RefineFailureIsNoOp ==
    [][\A r \in SeqReqs :
          (req[r].pc = "r_ai" /\ req'[r].pc = "done")
          => /\ req'[r].result \in {"err500", "aborted"}
             /\ UNCHANGED <<versions, portfolios>>]_vars

\* refine on a portfolio with versions has answered 500
C8_Witness ==
    \E r \in SeqReqs :
        /\ req[r].pc = "done"
        /\ req[r].op = "refine"
        /\ req[r].result = "err500"
        /\ Cardinality(VersionsOf(req[r].pid)) >= 2
        /\ portfolios[req[r].pid].current_version_id # 0

\* C9: once the content generator has raised, generate does not succeed and
\* the portfolio gets no version.
C9_GeneratorFailureFailsGenerate ==
    \A r \in SeqReqs :
        (req[r].op = "generate" /\ req[r].content_failed)
        => /\ req[r].pc # "g_return"
           /\ VersionsOf(req[r].pid) = {}

\* C10: the version revert creates is numbered one above the highest
\* existing number of the portfolio and carries the content of the selected
\* version; after the commit it is the only version of the portfolio.
C10_RevertNumberAndContent ==
    \A r \in SeqReqs :
        /\ req[r].pc = "v_commit" =>
              LET n == req[r].new_version IN
              /\ n.version_number = MaxNumber(VersionsOf(req[r].pid)) + 1
              /\ \E t \in VersionsOf(req[r].pid) :
                    /\ t.id = req[r].version_id
                    /\ n.public_portfolio_json = t.public_portfolio_json
                    /\ n.private_coaching_json = t.private_coaching_json
        /\ req[r].pc = "v_refresh" =>
              VersionsOf(req[r].pid) = {req[r].new_version}

\* revert(v1) on [v1, v2] has built v3 (not v2) with the content of v1,
\* which is not the content of v2
C10_Witness ==
    \E r \in SeqReqs :
        /\ req[r].pc = "v_commit"
        /\ req[r].new_version.version_number = 3
        /\ {v.version_number : v \in VersionsOf(req[r].pid)} = {1, 2}
        /\ \E t \in VersionsOf(req[r].pid) :
              t.id = req[r].version_id /\ t.version_number = 1
        /\ \E l \in VersionsOf(req[r].pid) :
              /\ l.version_number = 2
              /\ l.public_portfolio_json # req[r].new_version.public_portfolio_json

\* C11: confirm copies the version with the highest number, whatever its
\* state: the version it creates has that version's public and coaching
\* content, is committed, created by user_manual and numbered one above it;
\* the portfolio is repointed to it and set completed.
C11_ConfirmCopiesLatest ==
    \A r \in SeqReqs :
        LET n == req[r].new_version
            p == req[r].pid IN
        /\ req[r].pc \in {"c_delete", "c_commit"} =>
              /\ \E l \in VersionsOf(p) :
                    /\ l.version_number = MaxNumber(VersionsOf(p))
                    /\ n.version_number = l.version_number + 1
                    /\ n.public_portfolio_json = l.public_portfolio_json
                    /\ n.private_coaching_json = l.private_coaching_json
              /\ n.version_state = COMMITTED
              /\ n.created_by = USER_MANUAL
              /\ n.portfolio_id = p
        /\ (req[r].pc = "c_refresh" \/ Succeeded(r, "confirm")) =>
              /\ n \in versions
              /\ n.version_state = COMMITTED
              /\ n.created_by = USER_MANUAL
              /\ portfolios[p].current_version_id = n.id
              /\ portfolios[p].status = "completed"

\* confirm has built version 3 from the draft 2 holding refined content
C11_Witness ==
    \E r \in SeqReqs :
        /\ req[r].pc = "c_commit"
        /\ req[r].new_version.version_number = 3
        /\ \E l \in VersionsOf(req[r].pid) :
              /\ l.version_number = 2
              /\ l.version_state = DRAFT
              /\ l.created_by = AI_REFINEMENT
              /\ l.public_portfolio_json.ai_generated_content = RefinedContent
              /\ req[r].new_version.public_portfolio_json = l.public_portfolio_json

\* C12: the only change a refine handler makes to the store is its commit,
\* which adds exactly one version (draft, created by ai_refinement, numbered
\* one above the highest existing number), deletes none, and changes nothing
\* of the portfolio but current_version_id, which then names the new draft.
C12_RefineAddsOneDraft ==
    [][\A r \in SeqReqs :
          (/\ req[r].op = "refine"
           /\ InFlight(r)
           /\ <<versions, portfolios>>' # <<versions, portfolios>>)
          => LET n == req[r].new_version
                 p == req[r].pid IN
             /\ req[r].pc = "r_commit"
             /\ n \notin versions
             /\ versions' = versions \cup {n}
             /\ n.portfolio_id = p
             /\ n.version_state = DRAFT
             /\ n.created_by = AI_REFINEMENT
             /\ n.version_number = MaxNumber(VersionsOf(p)) + 1
             /\ portfolios' = [portfolios EXCEPT ![p].current_version_id = n.id]]_vars

\* a second refine has succeeded: version 1 and both drafts are in the store
C12_Witness ==
    \E r \in SeqReqs :
        /\ Succeeded(r, "refine")
        /\ req[r].new_version.version_number = 3
        /\ {<<v.version_number, v.version_state>> : v \in VersionsOf(req[r].pid)}
              = {<<1, COMMITTED>>, <<2, DRAFT>>, <<3, DRAFT>>}
        /\ portfolios[req[r].pid].current_version_id = req[r].new_version.id

\* C13: the draft refine creates carries the coaching document of the
\* version it refined, the highest-numbered one; hence along a chain of
\* refines every draft has the coaching document of the chain's first
\* version: all versions of a portfolio hold the same coaching document.
C13_RefineCarriesCoaching ==
    /\ \A r \in SeqReqs :
          req[r].pc = "r_commit" =>
              \E l \in LatestRows(req[r].pid) :
                  req[r].new_version.private_coaching_json = l.private_coaching_json
    /\ \A v, w \in versions :
          (v.portfolio_id = w.portfolio_id /\ v.created_by = AI_REFINEMENT)
          => v.private_coaching_json = w.private_coaching_json

\* the draft of a refine of a refine is stored next to version 1 and has
\* its coaching document
C13_Witness ==
    \E v, w \in versions :
        /\ v.portfolio_id = w.portfolio_id
        /\ w.version_number = 1 /\ w.created_by = AI
        /\ v.version_number = 3 /\ v.created_by = AI_REFINEMENT
        /\ v.private_coaching_json = CoachingContent
        /\ w.private_coaching_json = CoachingContent

\* C14: for every output of the refiner, the draft refine is about to
\* persist is a document with the sections of the version it refined and
\* with that version's personal_info; only ai_generated_content may differ.
C14_RefinePreservesProtectedSections ==
    \A r \in SeqReqs :
        req[r].pc = "r_commit" =>
            \E l \in LatestRows(req[r].pid) :
                LET new == req[r].new_version.public_portfolio_json
                    old == l.public_portfolio_json IN
                /\ new.json = old.json
                /\ new.sections = old.sections
                /\ new.personal_info = old.personal_info

\* C15: the only step of generate that changes the version table adds
\* exactly one version, numbered 1, committed, created by ai, as the only
\* version of the new portfolio, and the same step makes the portfolio
\* completed and pointing at it; no state has a version of a portfolio that
\* is not completed or does not point at one of its versions.
C15_GenerateStep ==
    \A r \in SeqReqs :
        (/\ req[r].op = "generate"
         /\ InFlight(r)
         /\ req'[r] # req[r]
         /\ versions' # versions)
        => LET n == req[r].new_version
               p == req[r].pid IN
           /\ n \notin versions
           /\ versions' = versions \cup {n}
           /\ {v \in versions' : v.portfolio_id = p} = {n}
           /\ n.version_number = 1
           /\ n.version_state = COMMITTED
           /\ n.created_by = AI
           /\ portfolios'[p].current_version_id = n.id
           /\ portfolios'[p].status = "completed"

C15_VersionImpliesCompleted ==
    \A p \in Pids :
        VersionsOf(p) # {}
        => /\ portfolios[p].status = "completed"
           /\ \E v \in VersionsOf(p) : v.id = portfolios[p].current_version_id

C15_GenerateAtomic ==
    /\ []C15_VersionImpliesCompleted
    /\ [][C15_GenerateStep]_vars

\* generate has committed and is about to answer: version 1 is in the store
C15_Witness ==
    \E r \in SeqReqs :
        /\ req[r].op = "generate"
        /\ req[r].pc = "g_return"
        /\ ~req[r].content_failed
        /\ req[r].new_version \in versions
        /\ portfolios[req[r].pid].current_version_id = req[r].new_version.id

\* C16: revert with a version_id that names no stored version of the
\* addressed portfolio (no version at all, or a version of another
\* portfolio) answers an error, and the store is as before.
C16_RevertRejectsForeignVersion ==
    [][\A r \in SeqReqs :
          (/\ req[r].pc = "v_select"
           /\ req'[r] # req[r]
           /\ ~\E v \in versions : /\ v.id = req[r].version_id
                                    /\ v.portfolio_id = req[r].pid)
          => /\ req'[r].pc = "done"
             /\ req'[r].result \in {"err400", "aborted"}
             /\ UNCHANGED <<versions, portfolios>>]_vars

\* revert addressed to a portfolio with a version of another portfolio has
\* been rejected; both portfolios have versions
C16_Witness ==
    \E r \in SeqReqs :
        /\ req[r].pc = "done"
        /\ req[r].op = "revert"
        /\ req[r].result = "err400"
        /\ VersionsOf(req[r].pid) # {}
        /\ \E v \in versions : /\ v.id = req[r].version_id
                                /\ v.portfolio_id # req[r].pid

\* C17: refine and confirm on a portfolio that has no version answer an
\* error and leave the store as it was: no version is created, status and
\* current_version_id of the portfolio are unchanged.
C17_NoVersionRejected ==
    [][\A r \in SeqReqs :
          (/\ req[r].pc \in {"r_latest", "c_latest"}
           /\ req'[r] # req[r]
           /\ VersionsOf(req[r].pid) = {})
          => /\ req'[r].pc = "done"
             /\ req'[r].result \in {"err400", "aborted"}
             /\ UNCHANGED <<versions, portfolios>>]_vars

\* confirm on a portfolio left generating, without a version, has been
\* rejected while another portfolio has versions
C17_Witness ==
    \E r \in SeqReqs :
        /\ req[r].pc = "done"
        /\ req[r].op = "confirm"
        /\ req[r].result = "err400"
        /\ portfolios[req[r].pid].exists
        /\ portfolios[req[r].pid].status = "generating"
        /\ portfolios[req[r].pid].current_version_id = 0
        /\ VersionsOf(req[r].pid) = {}
        /\ versions # {}

\* C18: in every state, a portfolio whose status is completed has a
\* non-empty current_version_id, which is the id of a stored version of
\* that same portfolio.
C18_CompletedHasCurrentVersion ==
    \A p \in Pids :
        (portfolios[p].exists /\ portfolios[p].status = "completed")
        => /\ portfolios[p].current_version_id # 0
           /\ \E v \in versions : /\ v.id = portfolios[p].current_version_id
                                   /\ v.portfolio_id = p

\* a revert has pruned a completed portfolio down to its restored copy,
\* which the portfolio points at
C18_Witness ==
    \E r \in SeqReqs :
        /\ Succeeded(r, "revert")
        /\ portfolios[req[r].pid].status = "completed"
        /\ portfolios[req[r].pid].current_version_id = req[r].new_version.id
        /\ req[r].new_version.version_number >= 3
        /\ req[r].new_version \in versions

\* C19: no step changes a stored version: a version present before and
\* after a step is the same row in every field, and a version leaves the
\* store only in the commit of a confirm or revert whose delete statement
\* named it.
C19_VersionsImmutable ==
    [][/\ \A v \in versions, w \in versions' : v.id = w.id => v = w
       /\ \A v \in versions \ versions' :
             \E r \in Reqs :
                 /\ req[r].op \in {"confirm", "revert"}
                 /\ req[r].pc \in {"c_commit", "v_commit"}
                 /\ req'[r].pc \in {"c_refresh", "v_refresh"}
                 /\ v.id \in req[r].deleted]_vars

\* refine_portfolio_section has answered on a portfolio whose versions a
\* revert had pruned: the snapshot it committed is stored with the content
\* and the summary it was created with, beside the version of the revert
C19_Witness ==
    \E r \in SeqReqs :
        LET p == req[r].pid
            n == req[r].new_version IN
        /\ Succeeded(r, "refine_section")
        /\ issued[p] >= 3
        /\ n \in VersionsOf(p)
        /\ n.created_by = AI_REFINEMENT
        /\ n.changes_summary[1] = "AI refinement of professional_summary: instruction"
        /\ n.public_portfolio_json.ai_generated_content = GeneratedContent
        /\ \E v \in VersionsOf(p) : v.changes_summary[1] = "Reverted to version"

\* C20: a successful manual edit whose patch sets the summary leaves in the
\* store a new version whose public content has the edited summary, and no
\* step of an edit removes a version from the store.
C20_EditPreservesHistory ==
    /\ [](\A r \in SeqReqs :
            (Succeeded(r, "edit") /\ "professional_summary" \in DOMAIN req[r].updates)
            => LET n == req[r].new_version IN
               /\ n \in VersionsOf(req[r].pid)
               /\ IsDict(n.public_portfolio_json)
               /\ n.public_portfolio_json.ai_generated_content = EditedContent)
    /\ [][\A r \in SeqReqs :
            req[r].op = "edit" => versions \subseteq versions']_vars

\* C21: the version created by a successful manual edit is committed, was
\* created by user_manual, and is the current version of the portfolio.
C21_EditCreatesCommittedCurrent ==
    \A r \in SeqReqs :
        Succeeded(r, "edit")
        => /\ req[r].new_version \in VersionsOf(req[r].pid)
           /\ req[r].new_version.version_state = COMMITTED
           /\ req[r].new_version.created_by = USER_MANUAL
           /\ portfolios[req[r].pid].current_version_id = req[r].new_version.id

\* C22: the version a manual edit creates is numbered one more than the
\* highest-numbered version of the portfolio: higher than every number ever
\* issued for the portfolio, pruned versions included, and the number of no
\* existing version.
C22_EditNumbering ==
    [][\A r \in SeqReqs :
         (req[r].op = "edit" /\ req[r].pc = "e_snapshot" /\ req'[r].pc = "e_commit")
         => LET n == req'[r].new_version
                p == req[r].pid IN
            /\ n \in versions' \ versions
            /\ n.version_number = MaxNumber(VersionsOf(p)) + 1
            /\ n.version_number > issued[p]
            /\ \A v \in VersionsOf(p) : v.version_number # n.version_number]_vars

\* a document: a dictionary whose ai_generated_content and metadata, where
\* it has them, are dictionaries
IsDocument(x) ==
    /\ x.t = "dict"
    /\ \A k \in DOMAIN x.v \cap SectionNames : x.v[k].t = "dict"

\* C23: the value merge returns differs from the value it was given only in
\* the fields of ai_generated_content that the updates name and the
\* allow-list holds, which carry the updates' values, and in the last_edited
\* stamp of metadata; on a document, updates naming other keys raise nothing
\* and change nothing; the value given is the same after the call as before.
C23_MergePatchesOnlyAllowedFields ==
    merge.pc \in {"returned", "raised"} =>
        LET given == merge.heap[1]
            named == DOMAIN merge.updates \cap AllowedFields IN
        /\ given = merge.input
        /\ IsDocument(merge.input) => merge.raised = "none"
        /\ merge.raised = "none" =>
            LET out == merge.heap[merge.updated] IN
            /\ out.t = merge.input.t
            /\ out.s = merge.input.s
            /\ DOMAIN out.v = DOMAIN merge.input.v
            /\ \A k \in DOMAIN out.v \ SectionNames :
                  out.v[k] = merge.input.v[k]
            /\ "ai_generated_content" \in DOMAIN out.v =>
                  LET new == out.v["ai_generated_content"]
                      old == merge.input.v["ai_generated_content"] IN
                  /\ new.t = old.t
                  /\ new.s = old.s
                  /\ DOMAIN new.v = DOMAIN old.v \cup named
                  /\ \A k \in DOMAIN new.v :
                        new.v[k] = IF k \in named THEN merge.updates[k]
                                   ELSE old.v[k]
            /\ "metadata" \in DOMAIN out.v =>
                  LET new == out.v["metadata"]
                      old == merge.input.v["metadata"] IN
                  /\ new.t = old.t
                  /\ new.s = old.s
                  /\ DOMAIN new.v = DOMAIN old.v \cup {"last_edited"}
                  /\ \A k \in DOMAIN old.v \ {"last_edited"} :
                        new.v[k] = old.v[k]

\* an allow-listed field of a document is patched while keys off the list,
\* one of them a field the content has, are in the same updates
C23_Witness ==
    /\ merge.pc = "returned"
    /\ IsDocument(merge.input)
    /\ {"professional_summary", "achievements", "data_sources"}
          \subseteq DOMAIN merge.updates
    /\ SectionNames \subseteq DOMAIN merge.input.v
    /\ {"achievements", "professional_summary"}
          \subseteq DOMAIN merge.input.v["ai_generated_content"].v
    /\ LET out == merge.heap[merge.updated] IN
       /\ out.v["ai_generated_content"].v["professional_summary"] = JsonStr("new")
       /\ out.v["ai_generated_content"].v["achievements"] = JsonStr("old")
       /\ out.v["metadata"].v["last_edited"] = JsonStr("now")

\* C24: every change an edit handler makes to the persisted tables is the
\* whole edit at once: one new version row for the portfolio together with
\* the edited content in the portfolio.  An edit that dies at any step
\* leaves the store as it was before the edit.
C24_EditAtomic ==
    [][\A r \in SeqReqs :
          (/\ req[r].op = "edit"
           /\ InFlight(r)
           /\ <<versions, portfolios>>' # <<versions, portfolios>>)
          => LET p == req[r].pid IN
             /\ \E n \in versions' \ versions :
                   /\ n.portfolio_id = p
                   /\ versions' = versions \cup {n}
             /\ portfolios'[p].public_portfolio_json =
                   updated_portfolio(portfolios[p].public_portfolio_json,
                                     req[r].updates).document]_vars

\* C25: when the versions of a portfolio with the highest version_number
\* are two or more, the step of refine or confirm that fetches the latest
\* version ends the request with an error and changes nothing in the store;
\* it does not go on with one of the tied versions.
C25_TieFailsLoudly ==
    [][\A r \in Reqs :
          (/\ req[r].pc \in {"r_latest", "c_latest"}
           /\ req'[r] # req[r]
           /\ Cardinality(LatestRows(req[r].pid)) > 1)
          => /\ req'[r].pc = "done"
             /\ req'[r].result \in {"err400", "err500", "aborted"}
             /\ UNCHANGED <<versions, portfolios>>]_vars

\* C26: a portfolio is in status generating only while its generate call is
\* running: once the call has ended, by returning, failing, timing out or
\* being cancelled, the portfolio is completed or error.
C26_GeneratingOnlyWhileGenerateRuns ==
    \A p \in Pids :
        (portfolios[p].exists /\ portfolios[p].status = "generating")
        => \E r \in SeqReqs : /\ InFlight(r)
                              /\ req[r].op = "generate"
                              /\ req[r].pid = p

\* C27: with handlers run one at a time, a portfolio that has versions has
\* exactly one version with the highest version_number, and that version is
\* the one current_version_id names: the latest version refine and confirm
\* read is the current one.
C27_CurrentIsLatest ==
    \A p \in Pids :
        VersionsOf(p) # {}
        => \E v \in VersionsOf(p) :
              /\ LatestRows(p) = {v}
              /\ portfolios[p].current_version_id = v.id

\* a draft refined on top of a confirmed version 2 is both latest and current
C27_Witness ==
    \E p \in Pids : \E v, w \in VersionsOf(p) :
        /\ v.version_number = 2 /\ v.version_state = COMMITTED
        /\ w.version_number = 3 /\ w.version_state = DRAFT
        /\ VersionsOf(p) = {v, w}
        /\ portfolios[p].current_version_id = w.id

\* C28: in every state, whichever step of generate failed, a portfolio whose
\* status is generating or error has no version in the store and an empty
\* current_version_id.
C28_UnfinishedHasNoVersion ==
    \A p \in Pids :
        (portfolios[p].exists /\ portfolios[p].status \in {"generating", "error"})
        => /\ VersionsOf(p) = {}
           /\ portfolios[p].current_version_id = 0

\* generate failed at the flush or the commit of version 1: the portfolio
\* is left in generating without a version, while an earlier portfolio has
\* its version
C28_Witness ==
    \E r \in SeqReqs : \E q \in Pids :
        /\ req[r].pc = "done" /\ req[r].op = "generate"
        /\ req[r].result = "err500"
        /\ portfolios[req[r].pid].status = "generating"
        /\ VersionsOf(req[r].pid) = {}
        /\ nextId > 1
        /\ portfolios[q].status = "completed"
        /\ VersionsOf(q) # {}

\* C29: refine and confirm answer 'no existing version' only on a portfolio
\* that has no version: whatever the refiner returned in earlier successful
\* refines, a portfolio with a version is never rejected that way.
C29_VersionedPortfolioNeverRejected ==
    \A r \in SeqReqs :
        (/\ req[r].pc = "done"
         /\ req[r].op \in {"refine", "confirm"}
         /\ req[r].result = "err400")
        => VersionsOf(req[r].pid) = {}

\* C30: public retrieval of a completed portfolio answers with the public
\* content of the version current_version_id names, be it a draft or a
\* committed version; right after a successful refine that is the new draft.
C30_RetrievalReturnsCurrentContent ==
    \A r \in SeqReqs :
        (/\ req[r].pc = "done"
         /\ req[r].op = "get_public"
         /\ req[r].result # "aborted"
         /\ portfolios[req[r].pid].status = "completed")
        => /\ req[r].result = "ok"
           /\ \E v \in VersionsOf(req[r].pid) :
                 /\ v.id = portfolios[req[r].pid].current_version_id
                 /\ req[r].public_portfolio_json = v.public_portfolio_json

====
